---------------------------- MODULE Spec2Model ----------------------------
(***************************************************************************)
(* AI Risk Mapping Bot (app.py): a Streamlit script that sends a security   *)
(* finding to a generative model and renders the structured answer.         *)
(*                                                                          *)
(* Texts are sequences of one-character strings, so that str.strip,         *)
(* str.startswith, slicing and json.loads are computed the way Python       *)
(* computes them.  JSON values are tagged records:                          *)
(*   [t |-> "str", v |-> chars]   [t |-> "num", v |-> Int]                  *)
(*   [t |-> "lit", v |-> "null" | "true" | "false"]                         *)
(*   [t |-> "arr", v |-> sequence of values]                                *)
(*   [t |-> "obj", v |-> function from key chars to values]   (a dict)      *)
(***************************************************************************)
EXTENDS Integers, Sequences, FiniteSets, TLC

VARIABLES
  env,            \* names of the variables set in os.environ
  runEnv,         \* os.environ as the latest script run saw it
  clientsCreated, \* number of genai.Client() handles constructed so far
  client,         \* the module-level `client` of the latest run (0: none)
  button,         \* st.button("Analyze Finding") of the latest run
  user_input,     \* st.text_area value of the latest run
  response,       \* outcome of client.models.generate_content (NoCall: none)
  usedClient,     \* handle the model call of the latest run went through
  prompt,         \* `contents` handed to the model (<<>>: no call)
  mapping_data,   \* what get_risk_mapping returned or raised (NotInvoked)
  screen,         \* what the latest run put on the page
  pc              \* "idle" between runs; "pending"/"done" for one request

vars == <<env, runEnv, clientsCreated, client, button, user_input, response,
          usedClient, prompt, mapping_data, screen, pc>>

----------------------------------------------------------------------------
(* Bounds of the model *)

\* the script creates a handle per run; runs stop once this many exist
MaxClients == 3

\* longest field value in a six-field object the model returns
MaxValLen == 1

\* longest finding the user types
MaxFindingLen == 2

----------------------------------------------------------------------------
(* Program texts *)

\* RISK_SCHEMA.required, in order
K_finding_summary ==
  <<
    "f", "i", "n", "d", "i", "n", "g", "_", "s", "u", "m", "m", "a", "r", "y"
  >>

K_mitre_tactic == <<"m", "i", "t", "r", "e", "_", "t", "a", "c", "t", "i", "c">>

K_mitre_technique ==
  <<
    "m", "i", "t", "r", "e", "_", "t", "e", "c", "h", "n", "i", "q", "u", "e"
  >>

K_nist_function ==
  <<
    "n", "i", "s", "t", "_", "f", "u", "n", "c", "t", "i", "o", "n"
  >>

K_nist_category ==
  <<
    "n", "i", "s", "t", "_", "c", "a", "t", "e", "g", "o", "r", "y"
  >>

K_remediation_suggestion ==
  <<
    "r", "e", "m", "e", "d", "i", "a", "t", "i", "o", "n", "_", "s", "u", "g",
    "g", "e", "s", "t", "i", "o", "n"
  >>


REQUIRED == <<K_finding_summary, K_mitre_tactic, K_mitre_technique,
             K_nist_function, K_nist_category, K_remediation_suggestion>>

K_error == <<"e", "r", "r", "o", "r">>

\* the f-string MASTER_PROMPT up to {finding_text}
PROMPT_HEAD ==
  <<
    "\n", "Y", "o", "u", " ", "a", "r", "e", " ", "a", " ", "h", "i", "g",
    "h", "l", "y", " ", "e", "x", "p", "e", "r", "i", "e", "n", "c", "e", "d",
    " ", "S", "e", "c", "u", "r", "i", "t", "y", " ", "E", "n", "g", "i", "n",
    "e", "e", "r", " ", "a", "n", "d", " ", "R", "i", "s", "k", " ", "C", "o",
    "n", "s", "u", "l", "t", "a", "n", "t", ".", "\n", "Y", "o", "u", "r",
    " ", "T", "A", "S", "K", " ", "i", "s", " ", "t", "o", " ", "a", "n", "a",
    "l", "y", "z", "e", " ", "t", "h", "e", " ", "r", "a", "w", " ", "s", "e",
    "c", "u", "r", "i", "t", "y", " ", "f", "i", "n", "d", "i", "n", "g", " ",
    "p", "r", "o", "v", "i", "d", "e", "d", " ", "b", "e", "l", "o", "w", " ",
    "a", "n", "d", " ", "m", "a", "p", " ", "i", "t", " ", "t", "o", " ", "c",
    "o", "m", "m", "o", "n", " ", "s", "e", "c", "u", "r", "i", "t", "y", " ",
    "f", "r", "a", "m", "e", "w", "o", "r", "k", "s", " ", "a", "n", "d", " ",
    "c", "o", "n", "t", "r", "o", "l", "s", ".", "\n", "Y", "o", "u", "r",
    " ", "e", "n", "t", "i", "r", "e", " ", "r", "e", "s", "p", "o", "n", "s",
    "e", " ", "m", "u", "s", "t", " ", "S", "T", "R", "I", "C", "T", "L", "Y",
    " ", "a", "d", "h", "e", "r", "e", " ", "t", "o", " ", "t", "h", "e", " ",
    "J", "S", "O", "N", " ", "s", "c", "h", "e", "m", "a", " ", "p", "r", "o",
    "v", "i", "d", "e", "d", " ", "i", "n", " ", "t", "h", "e", " ", "c", "o",
    "n", "f", "i", "g", "u", "r", "a", "t", "i", "o", "n", ".", "\n", "\n",
    "R", "a", "w", " ", "S", "e", "c", "u", "r", "i", "t", "y", " ", "F", "i",
    "n", "d", "i", "n", "g", " ", "t", "o", " ", "A", "n", "a", "l", "y", "z",
    "e", ":", "\n"
  >>

\* ... and after it
PROMPT_TAIL == <<"\n">>


\* the pieces of the f-string of the error record
ERR_PREFIX ==
  <<
    "A", "I", " ", "P", "a", "r", "s", "i", "n", "g", " ", "E", "r", "r", "o",
    "r", ":", " ", "C", "o", "u", "l", "d", " ", "n", "o", "t", " ", "g", "e",
    "t", " ", "s", "t", "r", "u", "c", "t", "u", "r", "e", "d", " ", "o", "u",
    "t", "p", "u", "t"
  >>

ERR_DETAILS == <<".", " ", "D", "e", "t", "a", "i", "l", "s", ":", " ">>

ERR_RAW ==
  <<
    ".", " ", "R", "a", "w", " ", "R", "e", "s", "p", "o", "n", "s", "e", " ",
    "(", "s", "t", "a", "r", "t", ")", ":", " "
  >>

ERR_DOTS == <<".", ".", ".">>


\* the two st.error texts of the script
MSG_INIT_FAILED ==
  <<
    "E", "r", "r", "o", "r", ":", " ", "G", "e", "m", "i", "n", "i", " ", "A",
    "P", "I", " ", "C", "l", "i", "e", "n", "t", " ", "f", "a", "i", "l", "e",
    "d", " ", "t", "o", " ", "i", "n", "i", "t", "i", "a", "l", "i", "z", "e",
    ".", " ", "E", "n", "s", "u", "r", "e", " ", "G", "E", "M", "I", "N", "I",
    "_", "A", "P", "I", "_", "K", "E", "Y", " ", "i", "s", " ", "s", "e", "t",
    " ", "i", "n", " ", "y", "o", "u", "r", " ", "e", "n", "v", "i", "r", "o",
    "n", "m", "e", "n", "t", " ", "o", "r", " ", "S", "t", "r", "e", "a", "m",
    "l", "i", "t", " ", "s", "e", "c", "r", "e", "t", "s", "."
  >>

MSG_NO_KEY ==
  <<
    "A", "P", "I", " ", "K", "e", "y", " ", "n", "o", "t", " ", "f", "o", "u",
    "n", "d", ".", " ", "P", "l", "e", "a", "s", "e", " ", "s", "e", "t", " ",
    "t", "h", "e", " ", "'", "G", "E", "M", "I", "N", "I", "_", "A", "P", "I",
    "_", "K", "E", "Y", "'", " ", "e", "n", "v", "i", "r", "o", "n", "m", "e",
    "n", "t", " ", "v", "a", "r", "i", "a", "b", "l", "e", " ", "a", "n", "d",
    " ", "r", "e", "f", "r", "e", "s", "h", "."
  >>


\* the default of mapping_data.get(key, "N/A")
NA == <<"N", "/", "A">>


\* the character U+0060 (grave accent), which a TLA+ string cannot hold
TICK == "U+0060"

\* the fence arguments of str.startswith and str.strip
FENCE_JSON == <<TICK, TICK, TICK, "j", "s", "o", "n">>

FENCE == <<TICK, TICK, TICK>>


\* raw_text[:50]
SnippetLen == 50

----------------------------------------------------------------------------
(* Python str operations *)

Min(a, b) == IF a < b THEN a ELSE b

Chars(s) == {s[i] : i \in 1..Len(s)}

\* the characters str.strip() removes, as far as the texts here hold them
WHITESPACE == {" ", "\n", "\t", "\r"}

\* s.startswith(p)
StartsWith(s, p) == Len(p) <= Len(s) /\ SubSeq(s, 1, Len(p)) = p

\* s.strip(chars): chars is a SET of characters, removed from both ends
Strip(s, chars) ==
  LET first == CHOOSE i \in 1..(Len(s) + 1) :
                 /\ i = Len(s) + 1 \/ s[i] \notin chars
                 /\ \A j \in 1..(i - 1) : s[j] \in chars
      last  == CHOOSE i \in 0..Len(s) :
                 /\ i = 0 \/ s[i] \notin chars
                 /\ \A j \in (i + 1)..Len(s) : s[j] \in chars
  IN  IF first > last THEN << >> ELSE SubSeq(s, first, last)

\* s[:n]
Prefix(s, n) == SubSeq(s, 1, Min(n, Len(s)))

\* needle in hay, for two strings
Contains(hay, needle) ==
  \E i \in 0..(Len(hay) - Len(needle)) :
    SubSeq(hay, i + 1, i + Len(needle)) = needle

DIGITS == <<"0", "1", "2", "3", "4", "5", "6", "7", "8", "9">>

\* str(n) of a natural number
RECURSIVE Dec(_)
Dec(n) ==
  IF n < 10 THEN <<DIGITS[n + 1]>> ELSE Dec(n \div 10) \o <<DIGITS[(n % 10) + 1]>>

----------------------------------------------------------------------------
(* json.loads: the scanner of the json module.  Indices are 1-based here;   *)
(* an error carries the 0-based `pos` of JSONDecodeError.  The raw texts of  *)
(* this model hold no backslash and no number with a fraction or exponent,   *)
(* so string escapes and floats are left out of the scanner.                *)

MSG_EXPECTING_VALUE ==
  <<
    "E", "x", "p", "e", "c", "t", "i", "n", "g", " ", "v", "a", "l", "u", "e"
  >>

MSG_EXTRA_DATA == <<"E", "x", "t", "r", "a", " ", "d", "a", "t", "a">>

MSG_EXPECTING_NAME ==
  <<
    "E", "x", "p", "e", "c", "t", "i", "n", "g", " ", "p", "r", "o", "p", "e",
    "r", "t", "y", " ", "n", "a", "m", "e", " ", "e", "n", "c", "l", "o", "s",
    "e", "d", " ", "i", "n", " ", "d", "o", "u", "b", "l", "e", " ", "q", "u",
    "o", "t", "e", "s"
  >>

MSG_EXPECTING_COLON ==
  <<
    "E", "x", "p", "e", "c", "t", "i", "n", "g", " ", "'", ":", "'", " ", "d",
    "e", "l", "i", "m", "i", "t", "e", "r"
  >>

MSG_EXPECTING_COMMA ==
  <<
    "E", "x", "p", "e", "c", "t", "i", "n", "g", " ", "'", ",", "'", " ", "d",
    "e", "l", "i", "m", "i", "t", "e", "r"
  >>

MSG_UNTERMINATED ==
  <<
    "U", "n", "t", "e", "r", "m", "i", "n", "a", "t", "e", "d", " ", "s", "t",
    "r", "i", "n", "g", " ", "s", "t", "a", "r", "t", "i", "n", "g", " ", "a",
    "t"
  >>

MSG_CONTROL_CHAR ==
  <<
    "I", "n", "v", "a", "l", "i", "d", " ", "c", "o", "n", "t", "r", "o", "l",
    " ", "c", "h", "a", "r", "a", "c", "t", "e", "r", " ", "a", "t"
  >>

POS_LINE == <<":", " ", "l", "i", "n", "e", " ">>

POS_COLUMN == <<" ", "c", "o", "l", "u", "m", "n", " ">>

POS_CHAR == <<" ", "(", "c", "h", "a", "r", " ">>

POS_END == <<")">>

Str(chars) == [t |-> "str", v |-> chars]
Num(n)     == [t |-> "num", v |-> n]
Lit(name)  == [t |-> "lit", v |-> name]
Arr(elems) == [t |-> "arr", v |-> elems]
Obj(dict)  == [t |-> "obj", v |-> dict]

Scanned(val, end)  == [ok |-> TRUE, val |-> val, end |-> end]
DecodeError(msg, pos) == [ok |-> FALSE, msg |-> msg, pos |-> pos]

\* WHITESPACE.match(s, i).end(): the first index >= i that holds no whitespace
RECURSIVE SkipWs(_, _)
SkipWs(s, i) ==
  IF i <= Len(s) /\ s[i] \in WHITESPACE THEN SkipWs(s, i + 1) ELSE i

At(s, i) == IF i >= 1 /\ i <= Len(s) THEN s[i] ELSE ""

\* scanstring: s[i] is the opening quote
ScanString(s, i) ==
  LET stops == {j \in (i + 1)..Len(s) : s[j] \in {"\"", "\n", "\t", "\r"}}
  IN  IF stops = {} THEN DecodeError(MSG_UNTERMINATED, i - 1)
      ELSE LET j == CHOOSE k \in stops : \A m \in stops : k <= m
           IN  IF s[j] = "\""
               THEN Scanned(SubSeq(s, i + 1, j - 1), j + 1)
               ELSE DecodeError(MSG_CONTROL_CHAR, j - 1)

\* NUMBER_RE at i: -?(0|[1-9][0-9]*); 0 when there is no match
RECURSIVE DigitsEnd(_, _)
DigitsEnd(s, i) ==
  IF At(s, i) \in Chars(DIGITS) THEN DigitsEnd(s, i + 1) ELSE i

NumberEnd(s, i) ==
  LET d == IF At(s, i) = "-" THEN i + 1 ELSE i
  IN  IF At(s, d) \notin Chars(DIGITS) THEN 0
      ELSE IF s[d] = "0" THEN d + 1 ELSE DigitsEnd(s, d)

DigitValue(c) == (CHOOSE k \in 1..10 : DIGITS[k] = c) - 1

RECURSIVE IntOf(_)
IntOf(ds) ==
  IF ds = << >> THEN 0
  ELSE 10 * IntOf(SubSeq(ds, 1, Len(ds) - 1)) + DigitValue(ds[Len(ds)])

NumberValue(s, i, e) ==
  IF s[i] = "-" THEN 0 - IntOf(SubSeq(s, i + 1, e - 1))
  ELSE IntOf(SubSeq(s, i, e - 1))

IsWord(s, i, w) == i + Len(w) - 1 <= Len(s) /\ SubSeq(s, i, i + Len(w) - 1) = w

RECURSIVE ScanValue(_, _), ScanMembers(_, _, _), ScanElements(_, _, _)

\* JSONObject after the first key's opening quote was found at i
ScanMembers(s, i, dict) ==
  LET key == ScanString(s, i)
  IN  IF ~key.ok THEN key
      ELSE
      LET c == SkipWs(s, key.end)
      IN  IF At(s, c) # ":" THEN DecodeError(MSG_EXPECTING_COLON, c - 1)
          ELSE
          LET val == ScanValue(s, SkipWs(s, c + 1))
          IN  IF ~val.ok THEN val
              ELSE
              LET next == (key.val :> val.val) @@ dict
                  d    == SkipWs(s, val.end)
              IN  IF At(s, d) = "}" THEN Scanned(Obj(next), d + 1)
                  ELSE IF At(s, d) # ","
                       THEN DecodeError(MSG_EXPECTING_COMMA, d - 1)
                  ELSE
                  LET e == SkipWs(s, d + 1)
                  IN  IF At(s, e) # "\""
                      THEN DecodeError(MSG_EXPECTING_NAME, e - 1)
                      ELSE ScanMembers(s, e, next)

\* JSONArray with the next element expected at i
ScanElements(s, i, elems) ==
  LET val == ScanValue(s, i)
  IN  IF ~val.ok THEN val
      ELSE
      LET next == Append(elems, val.val)
          d    == SkipWs(s, val.end)
      IN  IF At(s, d) = "]" THEN Scanned(Arr(next), d + 1)
          ELSE IF At(s, d) # "," THEN DecodeError(MSG_EXPECTING_COMMA, d - 1)
          ELSE ScanElements(s, SkipWs(s, d + 1), next)

\* scan_once(s, i)
ScanValue(s, i) ==
  LET c == At(s, i)
  IN  CASE c = "\"" ->
             LET str == ScanString(s, i)
             IN  IF str.ok THEN Scanned(Str(str.val), str.end) ELSE str
        [] c = "{" ->
             LET j == SkipWs(s, i + 1)
             IN  IF At(s, j) = "}" THEN Scanned(Obj(<< >>), j + 1)
                 ELSE IF At(s, j) # "\""
                      THEN DecodeError(MSG_EXPECTING_NAME, j - 1)
                 ELSE ScanMembers(s, j, << >>)
        [] c = "[" ->
             LET j == SkipWs(s, i + 1)
             IN  IF At(s, j) = "]" THEN Scanned(Arr(<< >>), j + 1)
                 ELSE ScanElements(s, j, << >>)
        [] c = "n" /\ IsWord(s, i, <<"n", "u", "l", "l">>) ->
             Scanned(Lit("null"), i + 4)
        [] c = "t" /\ IsWord(s, i, <<"t", "r", "u", "e">>) ->
             Scanned(Lit("true"), i + 4)
        [] c = "f" /\ IsWord(s, i, <<"f", "a", "l", "s", "e">>) ->
             Scanned(Lit("false"), i + 5)
        [] OTHER ->
             LET e == NumberEnd(s, i)
             IN  IF e # 0 THEN Scanned(Num(NumberValue(s, i, e)), e)
                 ELSE DecodeError(MSG_EXPECTING_VALUE, i - 1)

\* JSONDecoder.decode
json_loads(s) ==
  LET obj == ScanValue(s, SkipWs(s, 1))
  IN  IF ~obj.ok THEN obj
      ELSE LET end == SkipWs(s, obj.end)
           IN  IF end # Len(s) + 1 THEN DecodeError(MSG_EXTRA_DATA, end - 1)
               ELSE obj

\* str(e) of a JSONDecodeError on document s
ErrorText(s, e) ==
  LET newlines == {j \in 1..e.pos : s[j] = "\n"}
      lineno   == Cardinality(newlines) + 1
      colno    == IF newlines = {} THEN e.pos + 1
                  ELSE e.pos - ((CHOOSE j \in newlines :
                                   \A k \in newlines : k <= j) - 1)
  IN  e.msg \o POS_LINE \o Dec(lineno) \o POS_COLUMN \o Dec(colno)
        \o POS_CHAR \o Dec(e.pos) \o POS_END

----------------------------------------------------------------------------
(* get_risk_mapping *)

\* a call that returned v / that let the exception exc escape
Returned(v) == [raised |-> FALSE, value |-> v]
Raised(exc) == [raised |-> TRUE, value |-> Lit(exc)]

\* what client.models.generate_content does: raise, or answer with a text
RaiseOutcome(desc) == [kind |-> "raise", text |-> desc]
TextOutcome(text)  == [kind |-> "text", text |-> text]

\* a prompt builder that keeps only the first character of the finding
MASTER_PROMPT_Truncating(finding_text) ==
  PROMPT_HEAD \o Prefix(finding_text, 1) \o PROMPT_TAIL

\* the f-string of lines 38-45
MASTER_PROMPT(finding_text) == PROMPT_HEAD \o finding_text \o PROMPT_TAIL

\* the two prefix tests in the other order
CleanFences_PlainFirst(raw_text) ==
  IF StartsWith(raw_text, FENCE)
  THEN Strip(raw_text, Chars(FENCE))
  ELSE IF StartsWith(raw_text, FENCE_JSON)
       THEN Strip(Strip(raw_text, Chars(FENCE_JSON)), Chars(FENCE))
       ELSE raw_text

\* the elif branch left out
CleanFences_JsonOnly(raw_text) ==
  IF StartsWith(raw_text, FENCE_JSON)
  THEN Strip(Strip(raw_text, Chars(FENCE_JSON)), Chars(FENCE))
  ELSE raw_text

\* lines 64-67; str.strip takes its argument as a set of characters
CleanFences(raw_text) ==
  IF StartsWith(raw_text, FENCE_JSON)
  THEN Strip(Strip(raw_text, Chars(FENCE_JSON)), Chars(FENCE))
  ELSE IF StartsWith(raw_text, FENCE)
       THEN Strip(raw_text, Chars(FENCE))
       ELSE raw_text

\* line 74, with raw_text bound
ErrorMessage(details, raw_text) ==
  ERR_PREFIX \o ERR_DETAILS \o details \o ERR_RAW
    \o Prefix(raw_text, SnippetLen) \o ERR_DOTS

ErrorRecord(details, raw_text) ==
  Obj(K_error :> Str(ErrorMessage(details, raw_text)))

\* an extractor that rejects an object lacking a required key
get_risk_mapping_RequiringKeys(finding_text, outcome) ==
  IF outcome.kind = "raise"
  THEN Raised("UnboundLocalError")
  ELSE LET raw_text == CleanFences(Strip(outcome.text, WHITESPACE))
           parsed   == json_loads(raw_text)
       IN  IF parsed.ok
           THEN IF /\ parsed.val.t = "obj"
                   /\ \E k \in Chars(REQUIRED) : k \notin DOMAIN parsed.val.v
                THEN Returned(ErrorRecord(K_error, raw_text))
                ELSE Returned(parsed.val)
           ELSE Returned(ErrorRecord(ErrorText(raw_text, parsed), raw_text))

\* an extractor that rejects an object holding an empty string
get_risk_mapping_RejectingEmpty(finding_text, outcome) ==
  IF outcome.kind = "raise"
  THEN Raised("UnboundLocalError")
  ELSE LET raw_text == CleanFences(Strip(outcome.text, WHITESPACE))
           parsed   == json_loads(raw_text)
       IN  IF parsed.ok
           THEN IF /\ parsed.val.t = "obj"
                   /\ \E k \in DOMAIN parsed.val.v :
                        parsed.val.v[k] = Str(<< >>)
                THEN Returned(ErrorRecord(K_error, raw_text))
                ELSE Returned(parsed.val)
           ELSE Returned(ErrorRecord(ErrorText(raw_text, parsed), raw_text))

\* lines 48-74.  When generate_content raises, raw_text was never assigned:
\* the handler's raw_text[:50] raises UnboundLocalError, which nothing catches.
get_risk_mapping(finding_text, outcome) ==
  IF outcome.kind = "raise"
  THEN Raised("UnboundLocalError")
  ELSE LET raw_text == CleanFences(Strip(outcome.text, WHITESPACE))
           parsed   == json_loads(raw_text)
       IN  IF parsed.ok
           THEN Returned(parsed.val)
           ELSE Returned(ErrorRecord(ErrorText(raw_text, parsed), raw_text))

----------------------------------------------------------------------------
(* The page *)

Absent == [t |-> "absent", v |-> 0]

\* banner: the argument of st.error; subheader: "Analysis Results" is shown;
\* fields: the value shown for each of the six keys; exception: the
\* exception that ended the script run, if any
Screen(banner, subheader, fields, exception) ==
  [banner |-> banner, subheader |-> subheader, fields |-> fields,
   exception |-> exception]

EmptyScreen == Screen(Absent, FALSE, << >>, "none")

\* "error" in mapping_data (line 97), for the types that support `in`
HasError(m) ==
  CASE m.t = "obj" -> K_error \in DOMAIN m.v
    [] m.t = "str" -> Contains(m.v, K_error)
    [] m.t = "arr" -> \E i \in 1..Len(m.v) : m.v[i] = Str(K_error)

\* mapping_data.get(key, "N/A")
Get(dict, key) == IF key \in DOMAIN dict THEN dict[key] ELSE Str(NA)

\* lines 97-119
Render(m) ==
  IF m.t \in {"num", "lit"}
  THEN Screen(Absent, FALSE, << >>, "TypeError")
  ELSE IF HasError(m)
       THEN IF m.t = "obj"
            THEN Screen(m.v[K_error], FALSE, << >>, "none")
            ELSE Screen(Absent, FALSE, << >>, "TypeError")
       ELSE IF m.t = "obj"
            THEN Screen(Absent, TRUE,
                        [k \in Chars(REQUIRED) |-> Get(m.v, k)], "none")
            ELSE Screen(Absent, TRUE, << >>, "AttributeError")

\* lines 94-119: the call and what the page shows after it
Present(result) ==
  IF result.raised
  THEN Screen(Absent, FALSE, << >>, result.value.v)
  ELSE Render(result.value)

NotInvoked == Returned(Absent)
NoCall == [kind |-> "none", text |-> << >>]

----------------------------------------------------------------------------
(* Inputs: what the environment, the user and the model can supply *)

GEMINI_API_KEY == "GEMINI_API_KEY"
GOOGLE_API_KEY == "GOOGLE_API_KEY"

\* the variables genai.Client() takes its key from when it is given none
CredentialNames == {GEMINI_API_KEY, GOOGLE_API_KEY}

SeqsUpTo(S, n) == UNION {[1..k -> S] : k \in 0..n}

FindingChars == {"a", "\""}
Findings == SeqsUpTo(FindingChars, MaxFindingLen)

FieldChars == {"a"}
FieldVals == SeqsUpTo(FieldChars, MaxValLen)

\* six-field records: one field holds v1, the others v2
ValidRecords ==
  {[k \in Chars(REQUIRED) |-> IF k = k0 THEN Str(v1) ELSE Str(v2)] :
     k0 \in Chars(REQUIRED), v1 \in FieldVals, v2 \in FieldVals}

BaseRecords == {[k \in Chars(REQUIRED) |-> Str(v)] : v \in FieldVals}

Quote(s) == <<"\"">> \o s \o <<"\"">>

\* compact JSON text of the string-valued dict rec, its keys in the order given
RECURSIVE MembersText(_, _)
MembersText(keys, rec) ==
  IF keys = << >> THEN << >>
  ELSE Quote(Head(keys)) \o <<":">> \o Quote(rec[Head(keys)].v)
         \o (IF Len(keys) > 1 THEN <<",">> ELSE << >>)
         \o MembersText(Tail(keys), rec)

ObjectText(keys, rec) == <<"{">> \o MembersText(keys, rec) \o <<"}">>

ValidTexts == {ObjectText(REQUIRED, r) : r \in ValidRecords}

\* objects lacking required keys: one key dropped, one key kept, no key
PartialKeySets ==
  {Chars(REQUIRED) \ {k} : k \in Chars(REQUIRED)}
    \cup {{k} : k \in Chars(REQUIRED)} \cup {{}}

Keeping(keys, kept) == SelectSeq(keys, LAMBDA x : x \in kept)

MissingKeyTexts ==
  {ObjectText(Keeping(REQUIRED, kept), r) :
     kept \in PartialKeySets, r \in BaseRecords}

\* objects that hold a key "error" of their own
ErrorKeyTexts ==
  {ObjectText(Append(REQUIRED, K_error), (K_error :> Str(<<"a">>)) @@ r) :
     r \in BaseRecords}
  \cup {ObjectText(<<K_error>>, K_error :> Str(<<"a">>))}

NonObjectTexts ==
  { <<"\"", "h", "i", "\"">>, Quote(K_error), <<"5">>, <<"-", "1", "2">>,
    <<"[", "]">>, <<"[">> \o Quote(K_error) \o <<"]">>,
    <<"n", "u", "l", "l">>, <<"t", "r", "u", "e">> }

SORRY ==
  <<
    "S", "o", "r", "r", "y", ",", " ", "I", " ", "c", "a", "n", "n", "o", "t",
    " ", "h", "e", "l", "p", " ", "w", "i", "t", "h", " ", "t", "h", "a", "t"
  >>

SomeValidText == ObjectText(REQUIRED, [k \in Chars(REQUIRED) |-> Str(<<"a">>)])

MalformedTexts ==
  { SORRY, << >>, Prefix(SomeValidText, 60), SomeValidText \o <<"x">>,
    <<"{", "\"", "a", "\"", ":", "\"", "b", "\n", "\"", "}">>,
    <<"{", "\"", "a", "\"", " ", "5", "}">> }

Bodies ==
  ValidTexts \cup MissingKeyTexts \cup ErrorKeyTexts \cup NonObjectTexts
    \cup MalformedTexts

BareWraps == {"bare", "spaced"}
JsonFenceWraps == {"json", "json_nl", "json_spaced"}
PlainFenceWraps == {"plain", "plain_nl", "plain_spaced"}
Wraps == BareWraps \cup JsonFenceWraps \cup PlainFenceWraps \cup {"json_open"}

Wrap(w, body) ==
  CASE w = "bare"         -> body
    [] w = "spaced"       -> <<" ", "\n">> \o body \o <<"\n", " ">>
    [] w = "json"         -> FENCE_JSON \o body \o FENCE
    [] w = "json_nl"      -> FENCE_JSON \o <<"\n">> \o body \o <<"\n">> \o FENCE
    [] w = "json_spaced"  ->
         <<" ">> \o FENCE_JSON \o <<"\n">> \o body \o <<"\n">> \o FENCE
           \o <<"\n">>
    [] w = "plain"        -> FENCE \o body \o FENCE
    [] w = "plain_nl"     -> FENCE \o <<"\n">> \o body \o <<"\n">> \o FENCE
    [] w = "plain_spaced" ->
         <<"\n">> \o FENCE \o <<"\n">> \o body \o <<"\n">> \o FENCE \o <<" ">>
    [] w = "json_open"    -> FENCE_JSON \o <<"\n">> \o body

RawTexts == {Wrap(w, b) : w \in Wraps, b \in Bodies}

\* description of an exception generate_content raises
TIMEOUT == <<"t", "i", "m", "e", "d", " ", "o", "u", "t">>

ModelOutcomes == {RaiseOutcome(TIMEOUT)} \cup {TextOutcome(t) : t \in RawTexts}

\* the replies the model gives in the runs of the whole script
AppOutcomes ==
  {RaiseOutcome(TIMEOUT)} \cup
  {TextOutcome(t) :
     t \in { SomeValidText, Wrap("json_nl", SomeValidText),
             Wrap("plain", SORRY), <<"5">>, <<"{", "}">> }}

----------------------------------------------------------------------------
(* The script.  Streamlit runs app.py from top to bottom when a session     *)
(* opens and again on every interaction with a widget; st.stop() and an     *)
(* exception end that run only, the server process goes on.                 *)

\* genai.Client() (line 27) raises when it finds no key in the environment
ClientInitFails(environ) == environ \cap CredentialNames = {}

\* a client kept from the first run on
CreateClient_Cached(created) == IF created = 0 THEN 1 ELSE created

\* genai.Client() returns a new handle; handles are numbered as created
CreateClient(created) == created + 1

\* a key test that never blocks
KeyMissing_Unchecked(environ) == FALSE

\* "GEMINI_API_KEY" not in os.environ (line 91)
KeyMissing(environ) == GEMINI_API_KEY \notin environ

\* lines 94-119 for one request: the prompt sent, the mapping, the page
Analyze(finding_text, outcome) ==
  LET result == get_risk_mapping(finding_text, outcome)
  IN  [prompt |-> MASTER_PROMPT(finding_text), mapping_data |-> result,
       screen |-> Present(result)]

\* one run of the whole script: clicked is what st.button returns in this
\* run, text what st.text_area holds, outcome what the model would answer.
\* The button and the text area are on the page, to be clicked and typed
\* into, only after a run that got past st.stop() (line 30).
ScriptRun(clicked, text, outcome) ==
  /\ pc = "idle"
  /\ clientsCreated < MaxClients
  /\ (clicked \/ text # << >>) => client # 0
  /\ runEnv' = env
  /\ button' = clicked
  /\ user_input' = text
  /\ UNCHANGED <<env, pc>>
  /\ IF ClientInitFails(env)
     THEN \* lines 28-30: st.error, st.stop
          /\ client' = 0
          /\ screen' = Screen(Str(MSG_INIT_FAILED), FALSE, << >>, "none")
          /\ response' = NoCall
          /\ usedClient' = 0
          /\ prompt' = << >>
          /\ mapping_data' = NotInvoked
          /\ UNCHANGED clientsCreated
     ELSE /\ client' = CreateClient(clientsCreated)
          /\ clientsCreated' = client'
          /\ IF clicked /\ text # << >>
             THEN IF KeyMissing(env)
                  THEN \* line 92
                       /\ screen' = Screen(Str(MSG_NO_KEY), FALSE, << >>, "none")
                       /\ response' = NoCall
                       /\ usedClient' = 0
                       /\ prompt' = << >>
                       /\ mapping_data' = NotInvoked
                  ELSE LET done == Analyze(text, outcome)
                       IN  /\ response' = outcome
                           /\ usedClient' = client'
                           /\ prompt' = done.prompt
                           /\ mapping_data' = done.mapping_data
                           /\ screen' = done.screen
             ELSE /\ screen' = EmptyScreen
                  /\ response' = NoCall
                  /\ usedClient' = 0
                  /\ prompt' = << >>
                  /\ mapping_data' = NotInvoked

Rerun ==
  \E clicked \in BOOLEAN, text \in Findings, outcome \in AppOutcomes :
    ScriptRun(clicked, text, outcome)

\* the environment of the process changes under the script
SetEnv ==
  /\ pc = "idle"
  /\ \E k \in CredentialNames \ env : env' = env \cup {k}
  /\ UNCHANGED <<runEnv, clientsCreated, client, button, user_input, response,
                 usedClient, prompt, mapping_data, screen, pc>>

UnsetEnv ==
  /\ pc = "idle"
  /\ \E k \in env : env' = env \ {k}
  /\ UNCHANGED <<runEnv, clientsCreated, client, button, user_input, response,
                 usedClient, prompt, mapping_data, screen, pc>>

Init ==
  /\ env \in SUBSET CredentialNames
  /\ runEnv = {}
  /\ clientsCreated = 0
  /\ client = 0
  /\ button = FALSE
  /\ user_input = << >>
  /\ response = NoCall
  /\ usedClient = 0
  /\ prompt = << >>
  /\ mapping_data = NotInvoked
  /\ screen = EmptyScreen
  /\ pc = "idle"

Next == Rerun \/ SetEnv \/ UnsetEnv

Spec == Init /\ [][Next]_vars

----------------------------------------------------------------------------
(* One request through get_risk_mapping and the render branch: the key is   *)
(* set, the button was clicked on a non-empty finding, and the model's      *)
(* outcome is drawn from every reply of the model.                          *)

InitRequest ==
  /\ env = {GEMINI_API_KEY}
  /\ runEnv = {GEMINI_API_KEY}
  /\ clientsCreated = 1
  /\ client = 1
  /\ button = TRUE
  /\ user_input \in Findings \ {<< >>}
  /\ response \in ModelOutcomes
  /\ usedClient = 1
  /\ prompt = << >>
  /\ mapping_data = NotInvoked
  /\ screen = EmptyScreen
  /\ pc = "pending"

\* lines 94-119
Serve ==
  /\ pc = "pending"
  /\ LET done == Analyze(user_input, response)
     IN  /\ prompt' = done.prompt
         /\ mapping_data' = done.mapping_data
         /\ screen' = done.screen
  /\ pc' = "done"
  /\ UNCHANGED <<env, runEnv, clientsCreated, client, button, user_input,
                 response, usedClient>>

NextRequest == Serve

RequestSpec == InitRequest /\ [][NextRequest]_vars

----------------------------------------------------------------------------
(* Properties *)

\* a request went through get_risk_mapping and the page was drawn
Served == pc # "pending" /\ response.kind # "none"

\* the record get_risk_mapping builds in its except branch
IsErrorDescriptor(result) ==
  /\ ~result.raised
  /\ result.value.t = "obj"
  /\ DOMAIN result.value.v = {K_error}
  /\ result.value.v[K_error].t = "str"
  /\ StartsWith(result.value.v[K_error].v, ERR_PREFIX)

\* the page shows the six fields and nothing else
ShowsFields(fields) == screen = Screen(Absent, TRUE, fields, "none")

\* C1: whenever the model call raises, get_risk_mapping returns an error
\* record with the 'AI Parsing Error' message, the page shows it as the
\* error banner, and no exception escapes.
C1_ModelFailureIsReported ==
  (Served /\ response.kind = "raise") =>
     /\ IsErrorDescriptor(mapping_data)
     /\ screen.banner = mapping_data.value.v[K_error]
     /\ screen.exception = "none"

\* C2 as stated: a reply that parses to an object lacking one of the six
\* required keys comes back as an error descriptor.
C2_MissingKeyIsError ==
  \A t \in MissingKeyTexts, w \in Wraps :
    (Served /\ response = TextOutcome(Wrap(w, t))) =>
       IsErrorDescriptor(mapping_data)

\* the replies of C2, each with the keys it keeps and the record it is of
MissingKeyCases ==
  {[text |-> Wrap(w, ObjectText(Keeping(REQUIRED, kept), r)),
    kept |-> kept, rec |-> r] :
     kept \in PartialKeySets, r \in BaseRecords, w \in Wraps}

\* C2 as the code has it: a reply that parses to an object lacking one of
\* the six required keys comes back as that object, unchanged and with no
\* 'error' field added, and the page shows it as a result with "N/A" in the
\* place of each missing field.
C2_MissingKeyIsShownAsNA ==
  \A c \in MissingKeyCases :
    (Served /\ response = TextOutcome(c.text)) =>
       /\ mapping_data = Returned(Obj([x \in c.kept |-> c.rec[x]]))
       /\ ShowsFields([x \in Chars(REQUIRED) |->
                         IF x \in c.kept THEN c.rec[x] ELSE Str(NA)])

C2_Witness ==
  /\ Served
  /\ \E c \in MissingKeyCases :
       /\ response = TextOutcome(c.text)
       /\ Cardinality(c.kept) = 5
       /\ StartsWith(c.text, FENCE_JSON)
  /\ \E x \in Chars(REQUIRED) : screen.fields[x] = Str(NA)
  /\ \E x \in Chars(REQUIRED) : screen.fields[x] # Str(NA)

\* C3: whenever parsing fails, fenced or not, the error message holds the
\* fixed prefix, the description of the failure, and as snippet the first
\* min(50, length) characters of the trimmed reply as it was before the
\* fences were removed.
C3_SnippetIsOfTheUncleanedText ==
  (Served /\ response.kind = "text" /\ IsErrorDescriptor(mapping_data)) =>
     LET message == mapping_data.value.v[K_error].v
         trimmed == Strip(response.text, WHITESPACE)
         cleaned == CleanFences(trimmed)
     IN  /\ StartsWith(message, ERR_PREFIX)
         /\ Contains(message,
                     ERR_DETAILS \o ErrorText(cleaned, json_loads(cleaned)))
         /\ Contains(message,
                     ERR_RAW \o Prefix(trimmed, SnippetLen) \o ERR_DOTS)

\* C4: a valid six-field object wrapped in a JSON-tagged fence gives the
\* record the object alone gives, with no 'json' tag left to break parsing.
C4_JsonFenceSameAsBare ==
  \A r \in ValidRecords, w \in JsonFenceWraps :
    (Served /\ response = TextOutcome(Wrap(w, ObjectText(REQUIRED, r)))) =>
       /\ mapping_data =
            get_risk_mapping(user_input, TextOutcome(ObjectText(REQUIRED, r)))
       /\ mapping_data = Returned(Obj(r))

C4_Witness ==
  /\ Served
  /\ response = TextOutcome(Wrap("json", SomeValidText))
  /\ mapping_data = Returned(json_loads(SomeValidText).val)
  /\ screen.subheader

\* C5: a valid six-field object wrapped in a plain fence gives the record
\* the object alone gives.
C5_PlainFenceSameAsBare ==
  \A r \in ValidRecords, w \in PlainFenceWraps :
    (Served /\ response = TextOutcome(Wrap(w, ObjectText(REQUIRED, r)))) =>
       /\ mapping_data =
            get_risk_mapping(user_input, TextOutcome(ObjectText(REQUIRED, r)))
       /\ mapping_data = Returned(Obj(r))

C5_Witness ==
  /\ Served
  /\ response = TextOutcome(Wrap("plain_nl", SomeValidText))
  /\ mapping_data = Returned(json_loads(SomeValidText).val)
  /\ screen.subheader

\* C6: a reply that is a valid six-field object, with at most whitespace
\* around it, comes back with its six values unchanged and no 'error'
\* field, whatever the strings are, the empty string included.
C6_ValidObjectUnchanged ==
  \A r \in ValidRecords, w \in BareWraps :
    (Served /\ response = TextOutcome(Wrap(w, ObjectText(REQUIRED, r)))) =>
       /\ mapping_data = Returned(Obj(r))
       /\ K_error \notin DOMAIN mapping_data.value.v
       /\ ShowsFields(r)

C6_Witness ==
  /\ Served
  /\ \E r \in ValidRecords :
       /\ response = TextOutcome(ObjectText(REQUIRED, r))
       /\ \E k \in Chars(REQUIRED) : r[k] = Str(<< >>)
       /\ \E k \in Chars(REQUIRED) : r[k] # Str(<< >>)
       /\ ShowsFields(r)

\* a trigger: the button was clicked in the latest run
Triggered == pc = "idle" /\ button

\* C7 as stated: whenever the trigger fires while GEMINI_API_KEY is absent,
\* the page shows the 'API Key not found' message and neither
\* get_risk_mapping nor the model is called.
C7_MissingKeyShowsKeyMessage ==
  (Triggered /\ GEMINI_API_KEY \notin runEnv) =>
     /\ screen.banner = Str(MSG_NO_KEY)
     /\ mapping_data = NotInvoked
     /\ response = NoCall

\* C7 as the code has it: whenever the trigger fires while GEMINI_API_KEY
\* is absent, neither get_risk_mapping nor the model is called and no
\* exception ends the run; with a non-empty finding the page shows an error
\* banner, 'API Key not found' when the run's genai.Client() succeeded (on
\* another key) and the client-initialization message when it did not; with
\* an empty finding the key is not looked at.  The process keeps running:
\* another script run can follow.
C7_MissingKeyBlocksTheCall ==
  (Triggered /\ GEMINI_API_KEY \notin runEnv) =>
     /\ mapping_data = NotInvoked
     /\ response = NoCall
     /\ prompt = << >>
     /\ screen.exception = "none"
     /\ screen.fields = << >>
     /\ GOOGLE_API_KEY \notin runEnv =>
          screen.banner = Str(MSG_INIT_FAILED)
     /\ (GOOGLE_API_KEY \in runEnv /\ user_input # << >>) =>
          screen.banner = Str(MSG_NO_KEY)
     /\ (GOOGLE_API_KEY \in runEnv /\ user_input = << >>) =>
          screen = EmptyScreen
     /\ clientsCreated < MaxClients => ENABLED Rerun

\* the key was there for an earlier run and is gone for this one
C7_Witness ==
  /\ Triggered
  /\ GEMINI_API_KEY \notin runEnv
  /\ user_input # << >>
  /\ clientsCreated >= 2
  /\ screen.banner = Str(MSG_NO_KEY)

\* C8 as stated: the client handle is created once and every request goes
\* through that one handle.
C8_OneClientPerProcess ==
  /\ clientsCreated <= 1
  /\ usedClient \in {0, 1}

\* C8 as the code has it: every script run that gets past line 27 creates
\* a client handle of its own, once, at module level; a request goes through
\* the handle its own run created, and get_risk_mapping creates none.
C8_OneClientPerRun ==
  [][(env' = env /\ client' # 0) =>
        /\ clientsCreated' = clientsCreated + 1
        /\ client' = clientsCreated'
        /\ usedClient' \in {0, client'}
        /\ response' # NoCall => usedClient' = client']_vars

C8_Witness ==
  /\ pc = "idle"
  /\ clientsCreated >= 2
  /\ response.kind = "text"
  /\ usedClient = clientsCreated

\* C9: the prompt handed to the model holds the finding verbatim, whole and
\* unescaped, between the fixed head and tail of the template.
C9_PromptHoldsFinding ==
  (pc = "done") =>
     /\ Contains(prompt, user_input)
     /\ StartsWith(prompt, PROMPT_HEAD)
     /\ SubSeq(prompt, Len(PROMPT_HEAD) + 1, Len(prompt) - Len(PROMPT_TAIL))
          = user_input

C9_Witness ==
  /\ pc = "done"
  /\ Len(user_input) = MaxFindingLen
  /\ "\"" \in Chars(user_input)
  /\ Contains(prompt, user_input)

\* C10: a trigger with a non-empty finding and the key present ends, for
\* every text the model returns, with the six fields or with one error
\* banner on the page: not both, not neither, and no unhandled exception.
C10_FieldsOrBannerAlways ==
  (Triggered /\ user_input # << >> /\ GEMINI_API_KEY \in runEnv
     /\ response.kind = "text") =>
     /\ screen.exception = "none"
     /\ (screen.fields # << >>) # (screen.banner # Absent)

=============================================================================
